---- MODULE Spec2Model ----
(***************************************************************************)
(* Model of the prototype-pollution demo servers.                          *)
(*                                                                         *)
(* The secure server (fixes/server-fixed.js, src/server-vulnerable.js      *)
(* lines 305-510) is modelled as a state machine over the JavaScript       *)
(* objects it keeps: the user records, the built-in shared ancestors       *)
(* (Object.prototype, Array.prototype and the Object/Array constructor     *)
(* functions) and the last request and response.  Property reads and       *)
(* writes follow the JavaScript rules the code relies on: own properties   *)
(* first, then the prototype chain; writes to a frozen object or over an   *)
(* inherited non-writable property are dropped silently (the file is not   *)
(* in strict mode).                                                        *)
(*                                                                         *)
(* SpecMerge applies safeMerge alone to bounded targets and sources, and   *)
(* SpecVuln is the vulnerable server (src/server-vulnerable.js lines       *)
(* 1-179) with its unsafeMerge, over the same variables.                   *)
(***************************************************************************)
EXTENDS Integers, Sequences, FiniteSets, TLC

\* ------------------------------------------------------------------------
\* Bounds
\* ------------------------------------------------------------------------
\* Number of requests one run of a server handles.
MaxRequests == 3
\* Number of merge calls one run of the merge-only specification makes.
MaxMerges == 2

\* ------------------------------------------------------------------------
\* JavaScript values
\* ------------------------------------------------------------------------
\* A value is a tagged record.  Mappings and sequences keep their own
\* properties as an association list kv (in insertion order) and name their
\* prototype in p: "OP" (Object.prototype), "AP" (Array.prototype), "FP"
\* (Function.prototype) or "null".
Num(n) == [t |-> "num", v |-> n]
Str(s) == [t |-> "str", v |-> s]
Bool(b) == [t |-> "bool", v |-> b]
Null == [t |-> "null"]
Undef == [t |-> "undef"]
\* A built-in function that the model treats as opaque.
Fn(name) == [t |-> "fn", v |-> name]
\* A reference to one of the built-in shared objects.
GRef(g) == [t |-> "gref", v |-> g]
\* A JSON-parsed mapping: its prototype is Object.prototype.
Obj(kv) == [t |-> "obj", p |-> "OP", kv |-> kv]
\* Object.create(null), optionally with Object.assign'ed fields.
NullObj(kv) == [t |-> "obj", p |-> "null", kv |-> kv]
\* The string form of an array index.
IdxKey == <<"0", "1", "2", "3">>
\* A JSON-parsed sequence: own index keys "0".."n-1", prototype Array.prototype.
Arr(elems) == [t |-> "arr", p |-> "AP",
               kv |-> [i \in 1..Len(elems) |-> <<IdxKey[i], elems[i]>>]]

\* The names of the built-in shared objects.
Globals == {"OP", "AP", "FO", "FA", "FP"}

\* JavaScript truthiness (the tests !target[key], updates || {}, !username).
Truthy(v) ==
  CASE v.t = "num" -> v.v # 0
    [] v.t = "str" -> v.v # ""
    [] v.t = "bool" -> v.v
    [] v.t \in {"null", "undef"} -> FALSE
    [] OTHER -> TRUE

\* ------------------------------------------------------------------------
\* Association lists
\* ------------------------------------------------------------------------
AssocHas(kv, k) == \E i \in 1..Len(kv) : kv[i][1] = k
AssocGet(kv, k) == kv[CHOOSE i \in 1..Len(kv) : kv[i][1] = k][2]
AssocSet(kv, k, v) ==
  IF AssocHas(kv, k)
  THEN [i \in 1..Len(kv) |-> IF kv[i][1] = k THEN <<k, v>> ELSE kv[i]]
  ELSE Append(kv, <<k, v>>)
AssocKeys(kv) == [i \in 1..Len(kv) |-> kv[i][1]]
KeySet(kv) == {kv[i][1] : i \in 1..Len(kv)}

\* ------------------------------------------------------------------------
\* The object world of one merge call
\* ------------------------------------------------------------------------
\* A world w holds the object being merged into (root), the built-in shared
\* objects, the set of frozen shared objects, the error thrown so far ("" for
\* none) and oob, set when a step leaves the part of JavaScript modelled here.
\* A location is <<base, k1, ..., kn>>: the object reached from w[base] by
\* the own properties k1..kn.

\* Object.prototype, Array.prototype, the constructors Object and Array, and
\* Function.prototype, as the runtime creates them.
BuiltinObjects ==
  [OP |-> [t |-> "obj", p |-> "null", kv |-> << <<"constructor", GRef("FO")>> >>],
   AP |-> [t |-> "obj", p |-> "OP", kv |-> << <<"constructor", GRef("FA")>> >>],
   FO |-> [t |-> "fnobj", p |-> "FP", kv |-> << <<"prototype", GRef("OP")>> >>],
   FA |-> [t |-> "fnobj", p |-> "FP", kv |-> << <<"prototype", GRef("AP")>> >>],
   FP |-> [t |-> "fnobj", p |-> "OP", kv |-> << <<"constructor", Fn("Function")>> >>]]

\* The built-in properties: none is enumerable, and a constructor's prototype
\* property is not writable.
BuiltinKeys(g) ==
  CASE g \in {"OP", "AP", "FP"} -> {"constructor"}
    [] g \in {"FO", "FA"} -> {"prototype"}
    [] OTHER -> {}
NonWritable(loc, key) ==
  Len(loc) = 1 /\ loc[1] \in {"FO", "FA"} /\ key = "prototype"

World(root, glob, frozen) ==
  [root |-> root, OP |-> glob.OP, AP |-> glob.AP, FO |-> glob.FO,
   FA |-> glob.FA, FP |-> glob.FP, frozen |-> frozen, err |-> "", oob |-> FALSE]
GlobOf(w) == [OP |-> w.OP, AP |-> w.AP, FO |-> w.FO, FA |-> w.FA, FP |-> w.FP]

RECURSIVE ValAt(_, _)
ValAt(v, path) ==
  IF path = <<>> THEN v ELSE ValAt(AssocGet(v.kv, Head(path)), Tail(path))
ObjAt(w, loc) == ValAt(w[loc[1]], Tail(loc))

RECURSIVE ReplaceAt(_, _, _)
ReplaceAt(v, path, nv) ==
  IF path = <<>> THEN nv
  ELSE [v EXCEPT !.kv = AssocSet(v.kv, Head(path),
                                 ReplaceAt(AssocGet(v.kv, Head(path)), Tail(path), nv))]
WriteObj(w, loc, nv) == [w EXCEPT ![loc[1]] = ReplaceAt(w[loc[1]], Tail(loc), nv)]

\* typeof v
TypeOf(w, v) ==
  CASE v.t = "num" -> "number"
    [] v.t = "str" -> "string"
    [] v.t = "bool" -> "boolean"
    [] v.t = "undef" -> "undefined"
    [] v.t \in {"fn", "fnobj"} -> "function"
    [] v.t = "gref" -> IF w[v.v].t = "fnobj" THEN "function" ELSE "object"
    [] OTHER -> "object"

\* Array.isArray(v)
IsArray(v) == v.t = "arr" \/ (v.t = "gref" /\ v.v = "AP")

\* The length of a (dense) array: the number of its index keys.
IdxKeys == {IdxKey[i] : i \in 1..Len(IdxKey)}
ArrLen(o) == Cardinality({i \in 1..Len(o.kv) : o.kv[i][1] \in IdxKeys})

\* The first object of the prototype chain from g that holds key as an own data
\* property; "accessor" when the chain reaches Object.prototype's __proto__
\* accessor first; "none" when the chain ends.
RECURSIVE FindHolder(_, _, _)
FindHolder(w, g, key) ==
  IF g = "null" THEN "none"
  ELSE IF AssocHas(w[g].kv, key) THEN g
  ELSE IF g = "OP" /\ key = "__proto__" THEN "accessor"
  ELSE FindHolder(w, w[g].p, key)

ProtoVal(o) == IF o.p = "null" THEN Null ELSE GRef(o.p)

\* o[key] for an object value o: own properties first, then the chain.
ValueGet(w, o, isOP, key) ==
  IF AssocHas(o.kv, key) THEN AssocGet(o.kv, key)
  ELSE IF o.t = "arr" /\ key = "length" THEN Num(ArrLen(o))
  ELSE IF isOP /\ key = "__proto__" THEN ProtoVal(o)
  ELSE LET h == FindHolder(w, o.p, key)
       IN CASE h = "none" -> Undef
            [] h = "accessor" -> ProtoVal(o)
            [] OTHER -> AssocGet(w[h].kv, key)

\* target[key] for the object at loc: the value, and the location of the object
\* it denotes (<<>> when it is no object of the world).
Lookup(w, loc, key) ==
  LET o == ObjAt(w, loc)
      val == ValueGet(w, o, loc = <<"OP">>, key)
      h == IF AssocHas(o.kv, key) THEN "own" ELSE FindHolder(w, o.p, key)
      at == CASE val.t = "gref" -> <<val.v>>
              [] val.t \in {"obj", "arr"} /\ h = "own" -> Append(loc, key)
              [] val.t \in {"obj", "arr"} /\ h \in Globals -> <<h, key>>
              [] OTHER -> <<>>
  IN [val |-> val, at |-> at]

\* ToNumber(v) as an array length, or -1 when it is no valid length
\* (this is what makes setting an array's length throw a RangeError).
ToLength(v) ==
  CASE v.t = "num" -> IF v.v >= 0 THEN v.v ELSE -1
    [] v.t = "null" -> 0
    [] v.t = "bool" -> IF v.v THEN 1 ELSE 0
    [] v.t = "str" -> IF v.v = "" THEN 0 ELSE -1
    [] OTHER -> -1

Throw(w, e) == IF w.err = "" THEN [w EXCEPT !.err = e] ELSE w
OutOfModel(w) == [w EXCEPT !.oob = TRUE]

\* An own data property (created or overwritten) on the object at loc.
DefineOwn(w, loc, key, val) ==
  LET o == ObjAt(w, loc)
  IN IF o.t = "arr" /\ key \in IdxKeys /\ ~AssocHas(o.kv, key)
        /\ key # IdxKey[ArrLen(o) + 1]
     THEN OutOfModel(w)
     ELSE WriteObj(w, loc, [o EXCEPT !.kv = AssocSet(o.kv, key, val)])

\* target[key] = val in sloppy mode, for the object at loc (OrdinarySet):
\* a write to a frozen object, or over a non-writable own or inherited
\* property, is dropped silently; a write of __proto__ that reaches
\* Object.prototype's accessor sets the prototype instead of a property;
\* an array's length takes only valid lengths.
OrdinarySet(w, loc, key, val) ==
  LET o == ObjAt(w, loc)
      recvFrozen == Len(loc) = 1 /\ loc[1] \in w.frozen
      h == IF AssocHas(o.kv, key) THEN "own"
           ELSE IF loc = <<"OP">> /\ key = "__proto__" THEN "accessor"
           ELSE FindHolder(w, o.p, key)
  IN CASE h = "own" ->
            IF recvFrozen \/ NonWritable(loc, key) THEN w
            ELSE DefineOwn(w, loc, key, val)
       [] h # "own" /\ o.t = "arr" /\ key = "length" ->
            LET n == ToLength(val)
            IN IF n < 0 THEN Throw(w, "RangeError")
               ELSE IF n > ArrLen(o) THEN OutOfModel(w)
               ELSE WriteObj(w, loc,
                      [o EXCEPT !.kv = SelectSeq(o.kv,
                          LAMBDA e : e[1] \notin {IdxKey[i] : i \in (n + 1)..Len(IdxKey)})])
       [] h = "accessor" /\ ~(o.t = "arr" /\ key = "length") ->
            CASE val.t = "null" ->
                   IF o.p = "null" THEN w
                   ELSE IF recvFrozen THEN Throw(w, "TypeError")
                   ELSE WriteObj(w, loc, [o EXCEPT !.p = "null"])
              [] val.t \in {"obj", "arr", "gref", "fn", "fnobj"} ->
                   IF loc = <<"OP">> \/ recvFrozen THEN Throw(w, "TypeError")
                   ELSE OutOfModel(w)
              [] OTHER -> w
       [] h \in Globals /\ ~(o.t = "arr" /\ key = "length") ->
            IF h \in w.frozen \/ NonWritable(<<h>>, key) \/ recvFrozen THEN w
            ELSE DefineOwn(w, loc, key, val)
       [] OTHER ->
            IF recvFrozen THEN w ELSE DefineOwn(w, loc, key, val)

\* ------------------------------------------------------------------------
\* The secure server's merge (server-fixed.js)
\* ------------------------------------------------------------------------
DANGEROUS_KEYS == {"__proto__", "constructor", "prototype"}

\* Object.keys(v): the own enumerable string keys, in order.  A string has
\* its indices as keys; the other primitives have none.
ObjectKeys(v) ==
  CASE v.t \in {"obj", "arr"} -> AssocKeys(v.kv)
    [] v.t = "str" /\ v.v # "" -> <<"0">>
    [] OTHER -> <<>>

\* The enumerable inherited keys a for...in loop adds to the own keys.
RECURSIVE InheritedKeys(_, _)
InheritedKeys(w, g) ==
  IF g = "null" THEN <<>>
  ELSE SelectSeq(AssocKeys(w[g].kv), LAMBDA k : k \notin BuiltinKeys(g))
         \o InheritedKeys(w, w[g].p)

\* The keys a for...in loop enumerates: the own keys, then the enumerable
\* keys of the prototype chain that no own key shadows.
SourceKeysForIn(w, src) ==
  IF src.t \in {"obj", "arr"}
  THEN ObjectKeys(src) \o SelectSeq(InheritedKeys(w, src.p),
                                    LAMBDA k : ~AssocHas(src.kv, k))
  ELSE ObjectKeys(src)

\* The keys safeMerge enumerates in its source (line 342).
SourceKeys(w, src) == ObjectKeys(src)

\* source[key]
SourceGet(w, src, key) ==
  IF src.t \in {"obj", "arr"} THEN ValueGet(w, src, FALSE, key) ELSE Undef

\* A merge that lost its deny-list.
IsBlockedNever(key) == FALSE

\* The test of line 344.
IsBlocked(key) == key \in DANGEROUS_KEYS

\* The test of lines 349-353: the source value is a mapping.
IsPlainObject(w, v) == TypeOf(w, v) = "object" /\ v.t # "null" /\ ~IsArray(v)

\* An assignment that keeps a value the target already holds.
AssignIfAbsent(w, loc, key, val) ==
  IF AssocHas(ObjAt(w, loc).kv, key) THEN w ELSE OrdinarySet(w, loc, key, val)

\* target[key] = source[key] (line 360)
Assign(w, loc, key, val) == OrdinarySet(w, loc, key, val)

RECURSIVE SafeMergeFrom(_, _, _, _, _)
RECURSIVE safeMerge(_, _, _)

\* A recursion step that does not descend.
SafeMergeIntoShallow(w, cur, v) == w

\* safeMerge(target, v) where target is the value cur that target[key] read.
SafeMergeInto(w, cur, v) ==
  CASE cur.at # <<>> -> safeMerge(w, cur.at, v)
    [] cur.at = <<>> /\ cur.val.t \in {"undef", "null"} ->
         IF \E i \in 1..Len(ObjectKeys(v)) : ~IsBlocked(ObjectKeys(v)[i])
         THEN Throw(w, "TypeError") ELSE w
    [] OTHER -> OutOfModel(w)

\* The loop body of safeMerge for the i-th key.
SafeMergeFrom(w, loc, src, keys, i) ==
  IF w.err # "" \/ w.oob \/ i > Len(keys) THEN w
  ELSE LET key == keys[i]
           v == SourceGet(w, src, key)
       IN IF IsBlocked(key) THEN SafeMergeFrom(w, loc, src, keys, i + 1)
          ELSE IF IsPlainObject(w, v)
          THEN LET cur == Lookup(w, loc, key)
                   w1 == IF ~Truthy(cur.val) \/ TypeOf(w, cur.val) # "object"
                         THEN OrdinarySet(w, loc, key, NullObj(<<>>)) ELSE w
                   w2 == IF w1.err # "" \/ w1.oob THEN w1
                         ELSE SafeMergeInto(w1, Lookup(w1, loc, key), v)
               IN SafeMergeFrom(w2, loc, src, keys, i + 1)
          ELSE SafeMergeFrom(Assign(w, loc, key, v), loc, src, keys, i + 1)

\* safeMerge(target, source) with target the object at loc.  Object.keys
\* throws a TypeError for undefined and null.
safeMerge(w, loc, src) ==
  IF src.t \in {"undef", "null"} THEN Throw(w, "TypeError")
  ELSE SafeMergeFrom(w, loc, src, SourceKeys(w, src), 1)

\* ------------------------------------------------------------------------
\* Input validation (DEFENSE 5)
\* ------------------------------------------------------------------------
ALLOWED_KEYS == {"displayName", "email", "bio", "avatar"}

\* A validator that returns after looking at the first key only.
validateProfileUpdatesFirstKey(updates) ==
  LET keys == ObjectKeys(IF Truthy(updates) THEN updates ELSE Obj(<<>>))
      bad == IF Len(keys) > 0 /\ (keys[1] \in DANGEROUS_KEYS \/ keys[1] \notin ALLOWED_KEYS)
             THEN << keys[1] >> ELSE <<>>
  IN [i \in 1..Len(bad) |->
        [kind |-> IF bad[i] \in DANGEROUS_KEYS THEN "Forbidden key" ELSE "Unknown key",
         key |-> bad[i]]]

\* validateProfileUpdates(updates): one error per top-level key that is
\* forbidden or unknown, in key order.
validateProfileUpdates(updates) ==
  LET keys == ObjectKeys(IF Truthy(updates) THEN updates ELSE Obj(<<>>))
      bad == SelectSeq(keys, LAMBDA k : k \in DANGEROUS_KEYS \/ k \notin ALLOWED_KEYS)
  IN [i \in 1..Len(bad) |->
        [kind |-> IF bad[i] \in DANGEROUS_KEYS THEN "Forbidden key" ELSE "Unknown key",
         key |-> bad[i]]]

\* A field test that accepts whatever converts to a number.
SettingsFieldBadCoercing(w, settings, field) ==
  LET v == ValueGet(w, settings, FALSE, field)
  IN v.t # "undef" /\ (v.t \in {"obj", "arr"} \/ (v.t = "str" /\ v.v # ""))

\* The test validateSettings applies to one field: it is read through the
\* prototype chain and must be undefined or a number.
SettingsFieldBad(w, settings, field) ==
  LET v == ValueGet(w, settings, FALSE, field)
  IN v.t # "undef" /\ TypeOf(w, v) # "number"

\* validateSettings(settings): the errors for timeout, then retries.
validateSettings(w, settings) ==
  LET err(f) == IF SettingsFieldBad(w, settings, f)
                THEN << [kind |-> "must be a number", key |-> f] >> ELSE <<>>
  IN err("timeout") \o err("retries")

\* ------------------------------------------------------------------------
\* The secure server: state
\* ------------------------------------------------------------------------
VARIABLES
  users,    \* the in-memory user records (a null-prototype object)
  glob,     \* the built-in shared objects of the process
  req,      \* the request handled last
  resp,     \* the response to it
  merged,   \* the object the last handler merged into, after the merge
  nreq      \* the number of requests handled

vars == <<users, glob, req, resp, merged, nreq>>

\* Object.freeze(Object.prototype) at startup.
FrozenObjects == {"OP"}

\* The users object built at startup.
InitialUsers ==
  NullObj(<< <<"alice", NullObj(<< <<"username", Str("alice")>>, <<"role", Str("user")>> >>)>>,
             <<"bob", NullObj(<< <<"username", Str("bob")>>, <<"role", Str("user")>> >>)>> >>)

\* The defaults object a settings request starts from.
SettingsDefaults ==
  NullObj(<< <<"timeout", Num(30)>>, <<"retries", Num(3)>>, <<"debug", Bool(FALSE)>> >>)

NoBody == [error |-> "", details |-> <<>>, message |-> "", access |-> "",
           timeout |-> Undef, user |-> Undef, html |-> <<>>]
Response(status, fields) == [status |-> status, body |-> fields @@ NoBody]
NoRequest == [route |-> "none", u |-> 0, p |-> 0]
NoResponse == Response(0, [error |-> ""])

\* Express answers 500 when a handler throws.
InternalError(e) == Response(500, [error |-> e])

\* ------------------------------------------------------------------------
\* Request inputs
\* ------------------------------------------------------------------------
AdminFlag == Obj(<< <<"isAdmin", Bool(TRUE)>> >>)

\* The username field of an update-profile request.
Usernames == << Str("alice"), Str("bob"), Undef, Str("__proto__") >>

\* The updates field of an update-profile request.
ProfilePayloads == <<
  \* 1: verify-fixes Test 1
  Obj(<< <<"__proto__", AdminFlag>> >>),
  \* 2: verify-fixes Test 2
  Obj(<< <<"constructor", Obj(<< <<"prototype", AdminFlag>> >>)>> >>),
  \* 3: a plain allowed update
  Obj(<< <<"bio", Str("hi")>>, <<"email", Str("a@x")>> >>),
  \* 4: a denied key one level down
  Obj(<< <<"bio", Obj(<< <<"__proto__", AdminFlag>>, <<"a", Num(1)>> >>)>> >>),
  \* 5: a denied key inside a sequence
  Obj(<< <<"bio", Arr(<< Obj(<< <<"__proto__", AdminFlag>> >>) >>)>> >>),
  \* 6: an empty sequence
  Obj(<< <<"bio", Arr(<<>>)>> >>),
  \* 7: a key outside the allow-list
  Obj(<< <<"role", Str("admin")>> >>),
  \* 8: unknown keys and three levels of nesting under an allowed key
  Obj(<< <<"bio", Obj(<< <<"role", Str("admin")>>,
                         <<"a", Obj(<< <<"b", Obj(<< <<"c", Num(1)>> >>)>> >>)>> >>)>> >>),
  \* 9-12: updates that are no mapping
  Null, Undef, Num(5), Str("x"),
  \* 13: a length for whatever bio holds
  Obj(<< <<"bio", Obj(<< <<"length", Str("x")>> >>)>> >>),
  \* 14: constructor.prototype below the first element of bio
  Obj(<< <<"bio", Obj(<< <<"0", Obj(<< <<"constructor",
                                          Obj(<< <<"prototype", AdminFlag>> >>)>>,
                                       <<"x", Num(1)>> >>)>> >>)>> >>),
  \* 15: an allowed key beside a denied one
  Obj(<< <<"avatar", Str("pic")>>, <<"__proto__", AdminFlag>> >>)
>>

\* The body of a settings request.
SettingsPayloads == <<
  \* 1: verify-fixes Test 3, the DoS payload
  Obj(<< <<"__proto__", Obj(<< <<"timeout", Str("CORRUPTED")>> >>)>> >>),
  \* 2: verify-fixes Test 3, the normal request
  Obj(<< <<"timeout", Num(10)>> >>),
  \* 3-8: mistyped schema fields
  Obj(<< <<"timeout", Str("CORRUPTED")>> >>),
  Obj(<< <<"retries", Bool(TRUE)>>, <<"debug", Bool(TRUE)>> >>),
  Obj(<< <<"timeout", Null>> >>),
  Obj(<< <<"timeout", Arr(<< Num(1) >>)>>, <<"retries", Num(5)>> >>),
  Obj(<< <<"retries", Obj(<< <<"a", Num(1)>> >>)>> >>),
  Obj(<< <<"timeout", Str("x")>>, <<"retries", Str("y")>> >>),
  \* 9: well-typed fields
  Obj(<< <<"retries", Num(5)>>, <<"debug", Bool(TRUE)>> >>),
  \* 10: an empty body
  Obj(<<>>),
  \* 11: three levels of nesting
  Obj(<< <<"a", Obj(<< <<"b", Obj(<< <<"c", Num(1)>> >>)>> >>)>> >>),
  \* 12: a well-typed field beside a denied key
  Obj(<< <<"timeout", Num(10)>>, <<"constructor", Obj(<< <<"prototype", AdminFlag>> >>)>> >>),
  \* 13: a sequence as body
  Arr(<< Num(7) >>)
>>

\* The template and options fields of a render request.
Templates == << Undef, Str(""), Str("index"), Str("dashboard") >>
RenderOptions == << Undef, Obj(<<>>), Obj(<< <<"dangerousOption", Str("id")>> >>) >>

\* ------------------------------------------------------------------------
\* The secure server: handlers
\* ------------------------------------------------------------------------
NaN == [t |-> "nan"]

\* The strings of the model that ToNumber converts to a number.
NumericStrings == {"", "5"}
StringToNumber(s) == IF s = "5" THEN 5 ELSE 0

\* v * 1000 (ToNumber of the operand, then the product).
Times1000(v) ==
  CASE v.t = "num" -> Num(v.v * 1000)
    [] v.t = "null" -> Num(0)
    [] v.t = "bool" -> Num(IF v.v THEN 1000 ELSE 0)
    [] v.t = "str" /\ v.v \in NumericStrings -> Num(StringToNumber(v.v) * 1000)
    [] OTHER -> NaN

\* What JSON.stringify makes of a number: NaN is written as null.
JsonNumber(v) == IF v.t = "nan" THEN Null ELSE v

\* { ...obj }: a plain object holding obj's own enumerable properties.
Spread(o) == Obj(o.kv)

\* The response of a handler whose merge ended in world w; status -1 marks
\* a step outside the modelled part of JavaScript.
AfterMerge(w, ok) ==
  IF w.oob THEN Response(-1, [error |-> "out of model"])
  ELSE IF w.err # "" THEN InternalError(w.err)
  ELSE ok

\* POST /api/update-profile with body {username, updates}.
UpdateProfile(u, p) ==
  LET username == Usernames[u]
      updates == ProfilePayloads[p]
      w0 == World(users, glob, FrozenObjects)
      found == Truthy(username) /\ Truthy(ValueGet(w0, users, FALSE, username.v))
      errors == validateProfileUpdates(updates)
      w1 == safeMerge(w0, <<"root", username.v>>, updates)
  IN /\ nreq < MaxRequests
     /\ nreq' = nreq + 1
     /\ req' = [route |-> "profile", u |-> u, p |-> p]
     /\ IF ~found
        THEN /\ resp' = Response(404, [error |-> "User not found"])
             /\ merged' = Undef
             /\ UNCHANGED <<users, glob>>
        ELSE IF Len(errors) > 0
        THEN /\ resp' = Response(400, [error |-> "Invalid input", details |-> errors])
             /\ merged' = Undef
             /\ UNCHANGED <<users, glob>>
        ELSE /\ users' = w1.root
             /\ glob' = GlobOf(w1)
             /\ merged' = AssocGet(w1.root.kv, username.v)
             /\ resp' = AfterMerge(w1,
                          Response(200, [message |-> "Profile updated securely",
                                         user |-> Spread(AssocGet(w1.root.kv, username.v))]))

\* The user object the admin check inspects: Object.create(null).
AdminUser == NullObj(<<>>)

\* The same check with its two operators mistyped (|| for &&, !== for ===).
HasAdminRoleMistyped(w, user) ==
  \/ AssocHas(user.kv, "role")
  \/ ValueGet(w, user, FALSE, "role") # Str("admin")

\* hasOwnProperty.call(user, 'role') && user.role === 'admin'
HasAdminRole(w, user) ==
  /\ AssocHas(user.kv, "role")
  /\ ValueGet(w, user, FALSE, "role") = Str("admin")

\* GET /api/admin
Admin ==
  LET w0 == World(AdminUser, glob, FrozenObjects)
  IN /\ nreq < MaxRequests
     /\ nreq' = nreq + 1
     /\ req' = [route |-> "admin", u |-> 0, p |-> 0]
     /\ resp' = IF HasAdminRole(w0, AdminUser)
                THEN Response(200, [access |-> "GRANTED", message |-> "Welcome, Admin!"])
                ELSE Response(403, [access |-> "DENIED", message |-> "You are not an admin."])
     /\ merged' = Undef
     /\ UNCHANGED <<users, glob>>

\* POST /api/settings with body SettingsPayloads[p].
Settings(p) ==
  LET body == SettingsPayloads[p]
      w0 == World(SettingsDefaults, glob, FrozenObjects)
      errors == validateSettings(w0, body)
      w1 == safeMerge(w0, <<"root">>, body)
      timeout == ValueGet(w1, w1.root, FALSE, "timeout")
  IN /\ nreq < MaxRequests
     /\ nreq' = nreq + 1
     /\ req' = [route |-> "settings", u |-> 0, p |-> p]
     /\ UNCHANGED users
     /\ IF Len(errors) > 0
        THEN /\ resp' = Response(400, [error |-> "Invalid settings", details |-> errors])
             /\ merged' = Undef
             /\ UNCHANGED glob
        ELSE /\ glob' = GlobOf(w1)
             /\ merged' = w1.root
             /\ resp' = AfterMerge(w1,
                          Response(200, [message |-> "Settings applied securely",
                                         timeout |-> JsonNumber(Times1000(timeout))]))

\* safeRenderTemplate(templateName)
safeRenderTemplate(templateName) == <<"Secure page: ", templateName.v>>

\* A render route that hands the request's options to the renderer.
RenderWithOptions(t, o) ==
  LET template == Templates[t]
      options == RenderOptions[o]
      name == IF Truthy(template) THEN template ELSE Str("index")
  IN /\ nreq < MaxRequests
     /\ nreq' = nreq + 1
     /\ req' = [route |-> "render", u |-> t, p |-> o]
     /\ resp' = Response(200, [html |->
                   IF options.t = "obj" /\ AssocHas(options.kv, "dangerousOption")
                   THEN <<"RCE Triggered! Command: ", AssocGet(options.kv, "dangerousOption").v>>
                   ELSE safeRenderTemplate(name)])
     /\ merged' = Undef
     /\ UNCHANGED <<users, glob>>

\* POST /api/render with body {template, options}.
Render(t, o) ==
  LET template == Templates[t]
  IN /\ nreq < MaxRequests
     /\ nreq' = nreq + 1
     /\ req' = [route |-> "render", u |-> t, p |-> o]
     /\ resp' = Response(200, [html |-> safeRenderTemplate(
                                  IF Truthy(template) THEN template ELSE Str("index"))])
     /\ merged' = Undef
     /\ UNCHANGED <<users, glob>>

Init ==
  /\ users = InitialUsers
  /\ glob = BuiltinObjects
  /\ req = NoRequest
  /\ resp = NoResponse
  /\ merged = Undef
  /\ nreq = 0

Next ==
  \/ \E u \in 1..Len(Usernames), p \in 1..Len(ProfilePayloads) : UpdateProfile(u, p)
  \/ Admin
  \/ \E p \in 1..Len(SettingsPayloads) : Settings(p)
  \/ \E t \in 1..Len(Templates), o \in 1..Len(RenderOptions) : Render(t, o)

Spec == Init /\ [][Next]_vars

\* ------------------------------------------------------------------------
\* The merge alone: safeMerge applied to bounded targets and sources
\* ------------------------------------------------------------------------
\* The built-in objects after an earlier, unrelated pollution of
\* Object.prototype (before it was frozen).
PollutedObjects ==
  [BuiltinObjects EXCEPT !.OP.kv = @ \o << <<"isAdmin", Bool(TRUE)>>,
                                           <<"timeout", Str("CORRUPTED")>> >>]

\* The objects merged into: the settings defaults, a user record, and a plain
\* JSON-parsed object.
MergeTargets == << SettingsDefaults,
                   AssocGet(InitialUsers.kv, "alice"),
                   Obj(<< <<"bio", Str("old")>> >>) >>

\* The objects merged from.
MergeSources == SettingsPayloads \o SelectSeq(ProfilePayloads, LAMBDA v : v.t = "obj")

\* One call safeMerge(target, MergeSources[p]) on the current target.
MergeCall(p) ==
  LET w1 == safeMerge(World(merged, glob, FrozenObjects), <<"root">>, MergeSources[p])
  IN /\ nreq < MaxMerges
     /\ nreq' = nreq + 1
     /\ req' = [route |-> "merge", u |-> 0, p |-> p]
     /\ merged' = w1.root
     /\ glob' = GlobOf(w1)
     /\ resp' = AfterMerge(w1, Response(200, [message |-> "merged"]))
     /\ UNCHANGED users

\* The fields a later statement of the process tries to set on the shared
\* ancestor.
AncestorFields == << "isAdmin", "injected", "constructor" >>

\* Object.prototype[field] = true, after the freeze, inside try/catch
\* (concept-demo Defense 3): the catch branch reports the TypeError, the try
\* branch goes on to print the field.
AncestorWrite(f) ==
  LET w1 == OrdinarySet(World(merged, glob, FrozenObjects), <<"OP">>,
                        AncestorFields[f], Bool(TRUE))
  IN /\ nreq < MaxMerges
     /\ nreq' = nreq + 1
     /\ req' = [route |-> "ancestor-write", u |-> 0, p |-> f]
     /\ glob' = GlobOf(w1)
     /\ resp' = AfterMerge(w1, Response(200, [message |-> "After freeze attempt"]))
     /\ UNCHANGED <<users, merged>>

InitMerge ==
  /\ users = InitialUsers
  /\ glob \in {BuiltinObjects, PollutedObjects}
  /\ \E i \in 1..Len(MergeTargets) : merged = MergeTargets[i]
  /\ req = NoRequest
  /\ resp = NoResponse
  /\ nreq = 0

NextMerge ==
  \/ \E p \in 1..Len(MergeSources) : MergeCall(p)
  \/ \E f \in 1..Len(AncestorFields) : AncestorWrite(f)

SpecMerge == InitMerge /\ [][NextMerge]_vars

\* Every step stays inside the modelled part of JavaScript.
ModelCovers == resp.status # -1

\* ------------------------------------------------------------------------
\* Properties
\* ------------------------------------------------------------------------
\* The inputs of the request handled last.
LastUsername == Usernames[req.u]
LastUpdates == ProfilePayloads[req.p]
LastSettings == SettingsPayloads[req.p]
IsUser(username) == username.t = "str" /\ username.v \in {"alice", "bob"}

\* A denied key among the own keys of v.
DeniedAtTop(v) == v.t \in {"obj", "arr"} /\ KeySet(v.kv) \cap DANGEROUS_KEYS # {}

\* A denied key among the own keys of v or of a container inside v.
RECURSIVE DeniedAnywhere(_)
DeniedAnywhere(v) ==
  /\ v.t \in {"obj", "arr"}
  /\ \/ KeySet(v.kv) \cap DANGEROUS_KEYS # {}
     \/ \E i \in 1..Len(v.kv) : DeniedAnywhere(v.kv[i][2])

\* C1: on the secure server, after any sequence of requests, the shared
\* ancestor Object.prototype has exactly the fields and values it had at
\* startup, and so has every other built-in shared object a merge could
\* reach from it (Array.prototype, the Object and Array constructors).
C1_SharedAncestorUnchanged ==
  /\ glob.OP = BuiltinObjects.OP
  /\ glob = BuiltinObjects

\* C1 witness: a merge ran on a source that holds a denied key below the top
\* level, into a record that already stores a sequence.
C1_Witness ==
  /\ req.route = "profile" /\ resp.status = 200
  /\ DeniedAnywhere(LastUpdates)
  /\ \E i \in 1..Len(merged.kv) : merged.kv[i][2].t = "arr"

\* C2: every update-profile request for an existing user whose updates hold a
\* denied key at the top level is answered 400 and leaves the user records
\* and the shared ancestors exactly as they were.
C2_TopLevelDeniedRejected ==
  [][ (nreq' = nreq + 1 /\ req'.route = "profile" /\ IsUser(Usernames[req'.u])
         /\ DeniedAtTop(ProfilePayloads[req'.p]))
      => (resp'.status = 400 /\ users' = users /\ glob' = glob) ]_vars

\* C2 witness: such a request, with an allowed key before the denied one, was
\* rejected after an earlier accepted update.
C2_Witness ==
  /\ req.route = "profile" /\ IsUser(LastUsername) /\ req.p = 15
  /\ resp.status = 400
  /\ users # InitialUsers

\* C3: a settings request whose body is {"__proto__": {"timeout":
\* "CORRUPTED"}} is rejected with status 400 and is not applied.
C3_DosPayloadRejected ==
  (req.route = "settings" /\ req.p = 1) => (resp.status = 400 /\ merged = Undef)

\* C4: a settings body in which timeout or retries is present with a value
\* that is no Number is rejected with an error naming that field, and
\* nothing is merged: no defaults object is touched and no value is coerced.
C4_TypeGuard ==
  req.route = "settings" =>
    \A f \in {"timeout", "retries"} :
      (AssocHas(LastSettings.kv, f) /\ AssocGet(LastSettings.kv, f).t # "num")
      => /\ resp.status = 400
         /\ \E i \in 1..Len(resp.body.details) : resp.body.details[i].key = f
         /\ merged = Undef
         /\ resp.body.timeout = Undef

\* C4 witness: a body whose timeout is null (which would convert to 0) was
\* rejected.
C4_Witness ==
  /\ req.route = "settings" /\ resp.status = 400
  /\ AssocHas(LastSettings.kv, "timeout")
  /\ AssocGet(LastSettings.kv, "timeout").t = "null"

\* C5: a denied key nested below the top level of the updates is rejected as
\* one at the top level is: the request is answered 400 with a forbidden-key
\* error, and no denied key is stored anywhere in the user records.
C5_NestedDeniedRejected ==
  (req.route = "profile" /\ IsUser(LastUsername) /\ DeniedAnywhere(LastUpdates))
  => /\ resp.status = 400
     /\ \E i \in 1..Len(resp.body.details) : resp.body.details[i].kind = "Forbidden key"
     /\ ~DeniedAnywhere(AssocGet(users.kv, LastUsername.v))

C8_NoSuccessAfterSkip ==
  /\ (req.route = "profile" /\ DeniedAnywhere(LastUpdates)) => resp.status # 200
  /\ (req.route = "settings" /\ DeniedAnywhere(LastSettings)) => resp.status # 200

\* The key paths of the own properties in v, at every depth.
RECURSIVE Paths(_)
Paths(v) ==
  IF v.t \in {"obj", "arr"}
  THEN UNION { {<<v.kv[i][1]>>} \cup {<<v.kv[i][1]>> \o q : q \in Paths(v.kv[i][2])}
               : i \in 1..Len(v.kv) }
  ELSE {}

\* C7: a merge copies only keys the source holds itself: every key path of the
\* merged target was in the target before or is an own key path of the
\* source, also when Object.prototype carries enumerable fields from an
\* earlier pollution that the source inherits.
C7_OwnKeysOnly ==
  [][ (nreq' = nreq + 1 /\ req'.route = "merge")
      => Paths(merged') \subseteq (Paths(merged) \cup Paths(MergeSources[req'.p])) ]_vars

\* C7 witness: a merge into a null-prototype target returned while
\* Object.prototype carried the polluted fields, and it wrote a key.
C7_Witness ==
  /\ req.route = "merge" /\ resp.status = 200
  /\ AssocHas(glob.OP.kv, "isAdmin")
  /\ merged.p = "null"
  /\ AssocHas(merged.kv, "a")

\* The number of mapping levels in v.
RECURSIVE MapDepth(_)
MapDepth(v) ==
  IF v.t # "obj" THEN 0
  ELSE 1 + (LET ds == {MapDepth(v.kv[i][2]) : i \in 1..Len(v.kv)} \cup {0}
            IN CHOOSE d \in ds : \A e \in ds : e <= d)

RECURSIVE DeepCopied(_, _)
DeepCopied(tgt, src) ==
  /\ tgt.t \in {"obj", "arr"}
  /\ \A i \in 1..Len(src.kv) :
       LET k == src.kv[i][1]
           v == src.kv[i][2]
       IN \/ k \in DANGEROUS_KEYS
          \/ /\ AssocHas(tgt.kv, k)
             /\ IF v.t = "obj" THEN DeepCopied(AssocGet(tgt.kv, k), v)
                ELSE AssocGet(tgt.kv, k) = v

WellFormedSettings(body) ==
  /\ ~DeniedAtTop(body)
  /\ \A f \in {"timeout", "retries"} :
       AssocHas(body.kv, f) => AssocGet(body.kv, f).t = "num"

\* new holds the source's value for each scalar key of src.
CopiedTop(new, src) ==
  \A i \in 1..Len(src.kv) :
    (src.kv[i][1] \notin DANGEROUS_KEYS /\ src.kv[i][2].t \notin {"obj", "arr"})
    => (AssocHas(new.kv, src.kv[i][1]) /\ AssocGet(new.kv, src.kv[i][1]) = src.kv[i][2])

\* Every key that src does not name is in new exactly as it was in old.
KeptRest(old, new, src) ==
  \A k \in (KeySet(old.kv) \cup KeySet(new.kv)) \ KeySet(src.kv) :
    /\ AssocHas(old.kv, k) /\ AssocHas(new.kv, k)
    /\ AssocGet(old.kv, k) = AssocGet(new.kv, k)

\* C10: a settings body whose keys are all allowed and correctly typed is
\* merged with success; after a successful merge (settings or profile) the
\* target holds the source's value for each scalar key of the source and
\* every key the source does not name keeps its prior value; the timeout
\* answered is the merged timeout times 1000.
C10_MergeCopiesAndKeeps ==
  [][ (nreq' = nreq + 1) =>
      /\ (req'.route = "settings" /\ WellFormedSettings(SettingsPayloads[req'.p]))
         => /\ resp'.status = 200
            /\ CopiedTop(merged', SettingsPayloads[req'.p])
            /\ KeptRest(SettingsDefaults, merged', SettingsPayloads[req'.p])
            /\ resp'.body.timeout = Num(AssocGet(merged'.kv, "timeout").v * 1000)
      /\ (req'.route = "profile" /\ resp'.status = 200 /\ ProfilePayloads[req'.p].t = "obj")
         => /\ CopiedTop(merged', ProfilePayloads[req'.p])
            /\ KeptRest(AssocGet(users.kv, Usernames[req'.u].v), merged',
                        ProfilePayloads[req'.p])
            /\ merged' = AssocGet(users'.kv, Usernames[req'.u].v)
            /\ KeptRest(users, users', Obj(<< <<Usernames[req'.u].v, Null>> >>))
    ]_vars

\* C10 witness: Scenario B: {timeout: 10} merged into {timeout: 30, retries:
\* 3, debug: false} gave timeout 10 with retries 3 kept.
C10_Witness ==
  /\ req.route = "settings" /\ req.p = 2 /\ resp.status = 200
  /\ AssocGet(merged.kv, "timeout") = Num(10)
  /\ AssocGet(merged.kv, "retries") = Num(3)
  /\ resp.body.timeout = Num(10000)

\* The containers held inside v, at every depth.
RECURSIVE Nested(_)
Nested(v) ==
  IF v.t \in {"obj", "arr"}
  THEN UNION { (IF v.kv[i][2].t \in {"obj", "arr"} THEN {v.kv[i][2]} ELSE {})
                 \cup Nested(v.kv[i][2]) : i \in 1..Len(v.kv) }
  ELSE {}

\* Keys probed on a container: the ambient-aliased keys and a field an
\* attacker would plant on the shared ancestor.
ProbeKeys == {"constructor", "__proto__", "prototype", "isAdmin"}

\* Probing c for a key it does not hold itself yields undefined.
Isolated(c) ==
  \A k \in ProbeKeys :
    ~AssocHas(c.kv, k)
    => ValueGet(World(users, glob, FrozenObjects), c, FALSE, k) = Undef

\* C11: every container (mapping or sequence) that a merge has placed in a
\* user record or in the settings defaults is ancestor-free: probing it for a
\* key it does not hold itself yields undefined, never an inherited value.
C11_CreatedContainersIsolated ==
  /\ \A c \in Nested(users) : Isolated(c)
  /\ \A c \in Nested(merged) : Isolated(c)

\* C12: once Object.prototype is frozen, every attempt to set a field on it
\* raises an error: none succeeds and none is silently ignored.
C12_FrozenWriteRaises ==
  req.route = "ancestor-write" => resp.status = 500

\* C13: with the allow-list of the profile route in force, a key outside the
\* allow-list is denied at every depth: after an accepted update-profile
\* request, every key the request wrote into the user's record, at whatever
\* depth, is on the allow-list (the positions of a sequence are not counted
\* as keys).
C13_AllowListAtAnyDepth ==
  [][ (nreq' = nreq + 1 /\ req'.route = "profile" /\ resp'.status = 200)
      => LET before == AssocGet(users.kv, Usernames[req'.u].v)
             after == AssocGet(users'.kv, Usernames[req'.u].v)
         IN \A q \in Paths(after) \ Paths(before) :
              q[Len(q)] \in ALLOWED_KEYS \cup IdxKeys ]_vars

\* ------------------------------------------------------------------------
\* The vulnerable server's merge (server-vulnerable.js)
\* ------------------------------------------------------------------------
\* The value of a read the model does not follow.
Unmodelled == [t |-> "unmodelled"]

\* v[key] for a primitive v: a one-character string holds itself at index 0;
\* every other key is looked up on the wrapper's prototype, whose chain ends
\* in Object.prototype.  The wrapper prototypes themselves (constructor,
\* __proto__) are not modelled.
PrimitiveGet(w, v, key) ==
  IF v.t = "str" /\ v.v # "" /\ key = "0" THEN v
  ELSE IF key \in {"constructor", "__proto__", "length"} THEN Unmodelled
  ELSE LET h == FindHolder(w, "OP", key)
       IN IF h = "none" THEN Undef ELSE AssocGet(w[h].kv, key)

\* The keys of a for...in loop that enumerates own properties only.
ForInKeysOwnOnly(w, src) == ObjectKeys(src)

\* The keys for (const key in source) visits (line 26): the own enumerable
\* keys, then the enumerable keys of the prototype chain that no own key
\* shadows.  The list is taken when the loop starts; undefined and null have
\* no keys.
ForInKeys(w, src) ==
  CASE src.t \in {"obj", "arr"} ->
         ObjectKeys(src) \o SelectSeq(InheritedKeys(w, src.p),
                                      LAMBDA k : ~AssocHas(src.kv, k))
    [] src.t \in {"num", "bool", "str"} ->
         ObjectKeys(src) \o InheritedKeys(w, "OP")
    [] OTHER -> <<>>

\* source[key] (line 28), read when the key is visited.
SourceRead(w, src, key) ==
  IF src.t \in {"obj", "arr"} THEN ValueGet(w, src, FALSE, key)
  ELSE PrimitiveGet(w, src, key)

\* The test of line 28: typeof source[key] === 'object' && source[key] !== null
\* (a sequence passes it).
IsObjectValue(w, v) == TypeOf(w, v) = "object" /\ v.t # "null"

\* A merge target is the pair a property read returns: the value, and the
\* location of the object it denotes (<<>> for a primitive).
TargetAt(w, loc) == [val |-> ObjAt(w, loc), at |-> loc]

\* target[key] (lines 29 and 30)
TargetRead(w, tgt, key) ==
  IF tgt.at # <<>> THEN Lookup(w, tgt.at, key)
  ELSE LET val == PrimitiveGet(w, tgt.val, key)
       IN [val |-> val,
           at |-> IF val.t \in {"obj", "arr"} THEN <<FindHolder(w, "OP", key), key>>
                  ELSE <<>>]

\* target[key] = val (lines 29 and 32): on undefined or null it throws, on
\* another primitive it is dropped (the file is not in strict mode).
TargetWrite(w, tgt, key, val) ==
  IF tgt.at # <<>> THEN OrdinarySet(w, tgt.at, key, val)
  ELSE IF tgt.val.t \in {"undef", "null"} THEN Throw(w, "TypeError")
  ELSE IF tgt.val.t \in {"num", "str", "bool"} THEN w
  ELSE OutOfModel(w)

RECURSIVE UnsafeMergeFrom(_, _, _, _, _)
RECURSIVE unsafeMerge(_, _, _)

\* The loop body of unsafeMerge for the i-th key.
UnsafeMergeFrom(w, tgt, src, keys, i) ==
  IF w.err # "" \/ w.oob \/ i > Len(keys) THEN w
  ELSE IF tgt.at = <<>> /\ tgt.val.t \in {"undef", "null"} THEN Throw(w, "TypeError")
  ELSE IF tgt.at = <<>> /\ tgt.val.t \notin {"num", "str", "bool"} THEN OutOfModel(w)
  ELSE LET key == keys[i]
           v == SourceRead(w, src, key)
       IN IF v.t = "unmodelled" THEN OutOfModel(w)
          ELSE IF IsObjectValue(w, v)
          THEN LET cur == TargetRead(w, tgt, key)
                   w1 == IF cur.val.t = "unmodelled" THEN OutOfModel(w)
                         ELSE IF ~Truthy(cur.val) THEN TargetWrite(w, tgt, key, Obj(<<>>))
                         ELSE w
                   w2 == IF w1.err # "" \/ w1.oob THEN w1
                         ELSE unsafeMerge(w1, TargetRead(w1, tgt, key), v)
               IN UnsafeMergeFrom(w2, tgt, src, keys, i + 1)
          ELSE UnsafeMergeFrom(TargetWrite(w, tgt, key, v), tgt, src, keys, i + 1)

\* unsafeMerge(target, source)
unsafeMerge(w, tgt, src) == UnsafeMergeFrom(w, tgt, src, ForInKeys(w, src), 1)

\* ------------------------------------------------------------------------
\* The vulnerable server: state, inputs and handlers
\* ------------------------------------------------------------------------
\* The users object literal: plain objects, which inherit from
\* Object.prototype.
VulnUsers ==
  Obj(<< <<"alice", Obj(<< <<"username", Str("alice")>>, <<"password", Str("alice123")>>,
                           <<"role", Str("user")>> >>)>>,
         <<"bob", Obj(<< <<"username", Str("bob")>>, <<"password", Str("bob123")>>,
                         <<"role", Str("user")>> >>)>> >>)

\* The defaults literal of the settings route.
VulnDefaults ==
  Obj(<< <<"timeout", Num(30)>>, <<"retries", Num(3)>>, <<"debug", Bool(FALSE)>> >>)

\* Nothing is frozen on the vulnerable server.
VulnFrozen == {}

\* The username field of an update-profile request.
VulnUsernames == << Str("alice"), Str("nobody"), Str("__proto__") >>

\* The updates field of an update-profile request.
VulnProfilePayloads == <<
  \* 1: README Attack 1
  Obj(<< <<"__proto__", AdminFlag>> >>),
  \* 2: a plain update
  Obj(<< <<"bio", Str("hi")>> >>),
  \* 3: the constructor.prototype path
  Obj(<< <<"constructor", Obj(<< <<"prototype", Obj(<< <<"role", Str("admin")>> >>)>> >>)>> >>),
  \* 4: README Attack 3
  Obj(<< <<"__proto__", Obj(<< <<"dangerousOption", Str("id")>> >>)>> >>),
  \* 5: a record cut off from its prototype
  Obj(<< <<"__proto__", Null>> >>),
  \* 6: no updates field
  Undef
>>

\* The body of a settings request.
VulnSettingsPayloads == <<
  \* 1: README Attack 2
  Obj(<< <<"__proto__", Obj(<< <<"timeout", Str("CORRUPTED")>> >>)>> >>),
  \* 2: a timeout of its own
  Obj(<< <<"timeout", Num(10)>> >>),
  \* 3: an empty body
  Obj(<<>>),
  \* 4: another field
  Obj(<< <<"retries", Num(5)>> >>),
  \* 5: a number planted on the shared ancestor
  Obj(<< <<"__proto__", Obj(<< <<"timeout", Num(10)>> >>)>> >>),
  \* 6: a numeric string planted on the shared ancestor
  Obj(<< <<"__proto__", Obj(<< <<"timeout", Str("5")>> >>)>> >>)
>>

\* The template and options fields of a render request.
VulnTemplates == << Undef, Str("dashboard") >>
VulnRenderOptions == << Undef, Obj(<< <<"dangerousOption", Str("id")>> >>) >>

\* POST /api/update-profile with body {username, updates}.
VulnUpdateProfile(u, p) ==
  LET username == VulnUsernames[u]
      updates == VulnProfilePayloads[p]
      w0 == World(users, glob, VulnFrozen)
      user == Lookup(w0, <<"root">>, username.v)
      found == Truthy(username) /\ Truthy(user.val)
      w1 == unsafeMerge(w0, user, updates)
      after == IF user.at = <<>> THEN user.val ELSE ObjAt(w1, user.at)
  IN /\ nreq < MaxRequests
     /\ nreq' = nreq + 1
     /\ req' = [route |-> "profile", u |-> u, p |-> p]
     /\ IF ~found
        THEN /\ resp' = Response(404, [error |-> "User not found"])
             /\ merged' = Undef
             /\ UNCHANGED <<users, glob>>
        ELSE /\ users' = w1.root
             /\ glob' = GlobOf(w1)
             /\ merged' = after
             /\ resp' = AfterMerge(w1, Response(200, [message |-> "Profile updated",
                                                      user |-> after]))

\* The user object the admin check inspects: {}.
VulnAdminUser == Obj(<<>>)

\* An admin check that looks at own properties only.
VulnIsAdminOwnOnly(w, user) ==
  \/ (AssocHas(user.kv, "isAdmin") /\ Truthy(AssocGet(user.kv, "isAdmin")))
  \/ (AssocHas(user.kv, "role") /\ AssocGet(user.kv, "role") = Str("admin"))

\* user.isAdmin || user.role === 'admin'
VulnIsAdmin(w, user) ==
  \/ Truthy(ValueGet(w, user, FALSE, "isAdmin"))
  \/ ValueGet(w, user, FALSE, "role") = Str("admin")

\* GET /api/admin
VulnAdmin ==
  LET w0 == World(VulnAdminUser, glob, VulnFrozen)
  IN /\ nreq < MaxRequests
     /\ nreq' = nreq + 1
     /\ req' = [route |-> "admin", u |-> 0, p |-> 0]
     /\ resp' = IF VulnIsAdmin(w0, VulnAdminUser)
                THEN Response(200, [access |-> "GRANTED", message |-> "Welcome, Admin!"])
                ELSE Response(403, [access |-> "DENIED", message |-> "You are not an admin."])
     /\ merged' = Undef
     /\ UNCHANGED <<users, glob>>

\* POST /api/settings with body VulnSettingsPayloads[p].  The merge runs
\* outside the try block; the NaN test inside it.
VulnSettings(p) ==
  LET body == VulnSettingsPayloads[p]
      w0 == World(VulnDefaults, glob, VulnFrozen)
      w1 == unsafeMerge(w0, TargetAt(w0, <<"root">>), body)
      timeout == ValueGet(w1, w1.root, FALSE, "timeout")
      result == Times1000(timeout)
  IN /\ nreq < MaxRequests
     /\ nreq' = nreq + 1
     /\ req' = [route |-> "settings", u |-> 0, p |-> p]
     /\ glob' = GlobOf(w1)
     /\ merged' = w1.root
     /\ resp' = AfterMerge(w1,
                  IF result = NaN
                  THEN Response(500, [error |-> "Invalid timeout"])
                  ELSE Response(200, [message |-> "Settings applied", timeout |-> result]))
     /\ UNCHANGED users

\* renderTemplate(templateName, options)
renderTemplate(w, templateName, options) ==
  LET dangerousOption == ValueGet(w, options, FALSE, "dangerousOption")
  IN IF Truthy(dangerousOption)
     THEN <<"RCE Triggered! Command: ", dangerousOption.v>>
     ELSE <<"Welcome to ", templateName.v>>

\* POST /api/render with body {template, options}.
VulnRender(t, o) ==
  LET template == VulnTemplates[t]
      options == VulnRenderOptions[o]
      w0 == World(Obj(<<>>), glob, VulnFrozen)
      w1 == unsafeMerge(w0, TargetAt(w0, <<"root">>),
                        IF Truthy(options) THEN options ELSE Obj(<<>>))
  IN /\ nreq < MaxRequests
     /\ nreq' = nreq + 1
     /\ req' = [route |-> "render", u |-> t, p |-> o]
     /\ glob' = GlobOf(w1)
     /\ merged' = w1.root
     /\ resp' = AfterMerge(w1,
                  Response(200, [html |-> renderTemplate(w1, IF Truthy(template) THEN template
                                                                 ELSE Str("index"), w1.root)]))
     /\ UNCHANGED users

InitVuln ==
  /\ users = VulnUsers
  /\ glob = BuiltinObjects
  /\ req = NoRequest
  /\ resp = NoResponse
  /\ merged = Undef
  /\ nreq = 0

NextVuln ==
  \/ \E u \in 1..Len(VulnUsernames), p \in 1..Len(VulnProfilePayloads) : VulnUpdateProfile(u, p)
  \/ VulnAdmin
  \/ \E p \in 1..Len(VulnSettingsPayloads) : VulnSettings(p)
  \/ \E t \in 1..Len(VulnTemplates), o \in 1..Len(VulnRenderOptions) : VulnRender(t, o)

SpecVuln == InitVuln /\ [][NextVuln]_vars

\* Object.prototype holds a timeout that multiplies to NaN.
TimeoutPolluted(g) ==
  /\ AssocHas(g.OP.kv, "timeout")
  /\ Times1000(AssocGet(g.OP.kv, "timeout")) = NaN

\* The body of a settings request carries a string timeout under __proto__.
CarriesStringTimeout(body) ==
  /\ AssocHas(body.kv, "__proto__")
  /\ AssocGet(body.kv, "__proto__").t = "obj"
  /\ AssocHas(AssocGet(body.kv, "__proto__").kv, "timeout")
  /\ AssocGet(AssocGet(body.kv, "__proto__").kv, "timeout").t = "str"

C15_NextAdminGranted ==
  [][ (nreq' = nreq + 1) =>
      /\ (req'.route = "profile" /\ req'.u = 1 /\ req'.p = 1)
         => (AssocHas(glob'.OP.kv, "isAdmin")
             /\ AssocGet(glob'.OP.kv, "isAdmin") = Bool(TRUE))
      /\ (req.route = "profile" /\ req.u = 1 /\ req.p = 1 /\ req'.route = "admin")
         => resp'.body.access = "GRANTED" ]_vars

\* Object.prototype holds isAdmin = true.
AdminPolluted(g) ==
  AssocHas(g.OP.kv, "isAdmin") /\ AssocGet(g.OP.kv, "isAdmin") = Bool(TRUE)

\* C15 as amended: on the vulnerable server, an update-profile request with
\* updates {"__proto__": {"isAdmin": true}} for an existing user whose record
\* still inherits from Object.prototype is answered 200 and writes isAdmin =
\* true on Object.prototype; and while Object.prototype holds it, GET
\* /api/admin answers GRANTED, although the object it inspects has no field
\* of its own.
C15_PollutionGrantsAdmin ==
  [][ (nreq' = nreq + 1) =>
      /\ (req'.route = "profile" /\ req'.u = 1 /\ req'.p = 1
            /\ AssocGet(users.kv, "alice").p = "OP")
         => (resp'.status = 200 /\ AdminPolluted(glob'))
      /\ (req'.route = "admin" /\ AdminPolluted(glob))
         => (resp'.body.access = "GRANTED" /\ VulnAdminUser.kv = <<>>) ]_vars

\* C15 witness: GET /api/admin answered GRANTED right after README Attack 1,
\* with no role planted on Object.prototype and no isAdmin of alice's own.
C15_Witness ==
  /\ req.route = "admin" /\ resp.body.access = "GRANTED"
  /\ nreq = 2
  /\ AdminPolluted(glob)
  /\ ~AssocHas(glob.OP.kv, "role")
  /\ ~AssocHas(AssocGet(users.kv, "alice").kv, "isAdmin")

\* The page the secure server sends for template Templates[t] when it is the
\* first request of a run and carries no options.
PageOf(t) ==
  Response(200, [html |-> safeRenderTemplate(IF Truthy(Templates[t]) THEN Templates[t]
                                             ELSE Str("index"))])

\* C16: on the secure server the response of a render request is determined
\* by its template name alone: whatever the options field and whatever the
\* requests before it, it is the page a fresh server sends for that template
\* without options, and it is never the RCE-triggered page.
C16_RenderByTemplateAlone ==
  req.route = "render"
  => /\ resp = PageOf(req.u)
     /\ resp.body.html[1] # "RCE Triggered! Command: "

\* C16 witness: template 'index' was rendered as the secure page, with a
\* dangerousOption in the request's options and after an accepted profile
\* update.
C16_Witness ==
  /\ req.route = "render" /\ Templates[req.u] = Str("index")
  /\ RenderOptions[req.p].t = "obj" /\ AssocHas(RenderOptions[req.p].kv, "dangerousOption")
  /\ nreq >= 2 /\ users # InitialUsers
  /\ resp.body.html = <<"Secure page: ", "index">>

\* C17: when the source holds a container at key k and the target holds
\* nothing, a scalar or a container of the other shape at k, the merge puts a
\* fresh container of the source's shape at k: afterwards target[k] has the
\* source's shape and holds no key that the source's container does not hold.
C17_FreshContainerOnShapeMismatch ==
  [][ (nreq' = nreq + 1 /\ req'.route = "profile" /\ merged' # Undef
         /\ ProfilePayloads[req'.p].t = "obj")
      => LET src == ProfilePayloads[req'.p]
             before == AssocGet(users.kv, Usernames[req'.u].v)
         IN \A i \in 1..Len(src.kv) :
              LET k == src.kv[i][1]
                  v == src.kv[i][2]
              IN (/\ k \notin DANGEROUS_KEYS
                  /\ v.t \in {"obj", "arr"}
                  /\ (~AssocHas(before.kv, k) \/ AssocGet(before.kv, k).t # v.t))
                 => /\ AssocHas(merged'.kv, k)
                    /\ AssocGet(merged'.kv, k).t = v.t
                    /\ Paths(AssocGet(merged'.kv, k)) \subseteq Paths(v) ]_vars

\* C18: every update-profile request for an existing user ends in a 400
\* rejection that lists the violations or in a completed merge answered 200,
\* whatever the updates field is (absent, null, a scalar, a sequence or a
\* mapping): no request that passes validateProfileUpdates makes safeMerge
\* throw.
C18_ViolationsCollectedNotThrown ==
  (req.route = "profile" /\ IsUser(LastUsername))
  => \/ (resp.status = 400 /\ Len(resp.body.details) > 0)
     \/ (resp.status = 200 /\ merged # Undef)

====
